---- MODULE Spec2Model ----
(***************************************************************************)
(* Model of the ADT Pulse adapter entities for Home Assistant:             *)
(*   custom_components/adtpulse/alarm_control_panel.py                     *)
(*   custom_components/adtpulse/binary_sensor.py                           *)
(*                                                                         *)
(* Three specifications share the module:                                  *)
(*   Spec          the run-time behaviour of the entities (alarm panel     *)
(*                 state, commands, coordinator update callbacks);         *)
(*   SpecClassify  construction of one zone sensor from a zone's data      *)
(*                 (_determine_device_class);                              *)
(*   SpecSetup     the two platforms' async_setup_entry over a service.    *)
(* Text is modelled as a sequence of one-character strings.                *)
(***************************************************************************)
EXTENDS Integers, Sequences, FiniteSets, Bags, TLC

VARIABLES
    site_status,      \* ADTPulseSite.status of the panel's site (owned by the library)
    zone_state,       \* ADTPulseZoneData.state of the sensor's zone
    gateway_online,   \* PyADTPulse.gateway_online
    ha_state,         \* state last published for the alarm panel by async_write_ha_state
    last_update,      \* outcome of the last coordinator notification delivered
    tasks,            \* bag of the command invocations in flight: each its position,
                      \* command, external operations started, whether the awaited
                      \* operation completed, its result, and the
                      \* async_write_ha_state calls the invocation made
    zone_data,        \* SpecClassify: the zone handed to ADTPulseZoneSensor()
    ctor_result,      \* SpecClassify: outcome of the construction
    service,          \* SpecSetup: PyADTPulse.sites, each with its zones
    alarm_pc,         \* SpecSetup: position of the alarm platform's setup
    alarm_added,      \* SpecSetup: unique ids the alarm platform registered
    sensor_pc,        \* SpecSetup: position of the sensor platform's setup
    sensor_idx,       \* SpecSetup: index of the site the loop is at
    sensor_added      \* SpecSetup: entities the sensor platform registered

panel_vars == <<site_status, zone_state, gateway_online, ha_state, last_update, tasks>>
classify_vars == <<zone_data, ctor_result>>
setup_vars == <<service, alarm_pc, alarm_added, sensor_pc, sensor_idx, sensor_added>>
vars == <<panel_vars, classify_vars, setup_vars>>

----------------------------------------------------------------------------
(* Bounds *)

MaxTasks == 2
MaxTags == 3
MaxSites == 2
MaxZones == 2

----------------------------------------------------------------------------
(* Text helpers: Python's str `in` and str.lower() *)

UpperLetters == <<"A","B","C","D","E","F","G","H","I","J","K","L","M",
                  "N","O","P","Q","R","S","T","U","V","W","X","Y","Z">>
LowerLetters == <<"a","b","c","d","e","f","g","h","i","j","k","l","m",
                  "n","o","p","q","r","s","t","u","v","w","x","y","z">>

LowerChar(c) ==
    IF \E i \in 1..Len(UpperLetters) : UpperLetters[i] = c
    THEN LowerLetters[CHOOSE i \in 1..Len(UpperLetters) : UpperLetters[i] = c]
    ELSE c

Lower(s) == [i \in 1..Len(s) |-> LowerChar(s[i])]

Contains(s, sub) ==
    \E i \in 0..(Len(s) - Len(sub)) : SubSeq(s, i + 1, i + Len(sub)) = sub

InSeq(x, s) == \E i \in 1..Len(s) : s[i] = x

----------------------------------------------------------------------------
(* alarm_control_panel.py *)

None == "None"

ADT_ALARM_ARMING == "arming"
ADT_ALARM_AWAY == "away"
ADT_ALARM_DISARMING == "disarming"
ADT_ALARM_HOME == "home"
ADT_ALARM_OFF == "off"
ADT_ALARM_UNKNOWN == "unknown"

STATE_ALARM_ARMED_AWAY == "armed_away"
STATE_ALARM_ARMED_HOME == "armed_home"
STATE_ALARM_ARMING == "arming"
STATE_ALARM_DISARMED == "disarmed"
STATE_ALARM_DISARMING == "disarming"

\* the fixed vendor vocabulary, and a status outside it
VendorStatuses == {ADT_ALARM_ARMING, ADT_ALARM_AWAY, ADT_ALARM_DISARMING,
                   ADT_ALARM_HOME, ADT_ALARM_OFF, ADT_ALARM_UNKNOWN}
ForeignStatus == "night"
Statuses == VendorStatuses \cup {ForeignStatus}

ALARM_MAP_swapped ==
    (ADT_ALARM_ARMING :> STATE_ALARM_ARMING) @@
    (ADT_ALARM_AWAY :> STATE_ALARM_ARMED_HOME) @@
    (ADT_ALARM_DISARMING :> STATE_ALARM_DISARMING) @@
    (ADT_ALARM_HOME :> STATE_ALARM_ARMED_AWAY) @@
    (ADT_ALARM_OFF :> STATE_ALARM_DISARMED) @@
    (ADT_ALARM_UNKNOWN :> None)

ALARM_MAP ==
    (ADT_ALARM_ARMING :> STATE_ALARM_ARMING) @@
    (ADT_ALARM_AWAY :> STATE_ALARM_ARMED_AWAY) @@
    (ADT_ALARM_DISARMING :> STATE_ALARM_DISARMING) @@
    (ADT_ALARM_HOME :> STATE_ALARM_ARMED_HOME) @@
    (ADT_ALARM_OFF :> STATE_ALARM_DISARMED) @@
    (ADT_ALARM_UNKNOWN :> None)

\* ADTPulseAlarm.state
AlarmState(status) ==
    IF status \in DOMAIN ALARM_MAP THEN ALARM_MAP[status] ELSE None

Commands == {"disarm", "arm_home", "arm_away", "arm_custom_bypass"}

ExternalOp_noforce(cmd) ==
    CASE cmd = "disarm" -> [op |-> "async_disarm", force_arm |-> FALSE]
      [] cmd = "arm_home" -> [op |-> "async_arm_home", force_arm |-> FALSE]
      [] cmd = "arm_away" -> [op |-> "async_arm_away", force_arm |-> FALSE]
      [] cmd = "arm_custom_bypass" -> [op |-> "async_arm_away", force_arm |-> FALSE]

\* the coroutine each command method hands to _perform_alarm_action
ExternalOp(cmd) ==
    CASE cmd = "disarm" -> [op |-> "async_disarm", force_arm |-> FALSE]
      [] cmd = "arm_home" -> [op |-> "async_arm_home", force_arm |-> FALSE]
      [] cmd = "arm_away" -> [op |-> "async_arm_away", force_arm |-> FALSE]
      [] cmd = "arm_custom_bypass" -> [op |-> "async_arm_away", force_arm |-> TRUE]

Entities == {"alarm", "zone", "gateway"}
NoUpdate == [entity |-> "none", raised |-> FALSE, writes |-> 0, value |-> None]

\* STATE_OK of pyadtpulse.const
STATE_OK == "OK"

\* ADTPulseZoneSensor.is_on: tripped when the zone's state is anything but OK
ZoneIsOn(state) == ~(state = STATE_OK)

PanelInit ==
    /\ site_status \in Statuses
    /\ zone_state \in {STATE_OK, "Open"}
    /\ gateway_online \in BOOLEAN
    /\ ha_state = "unwritten"
    /\ last_update = NoUpdate
    /\ tasks = EmptyBag

\* the library changes the site's status, a zone's state, the gateway's state
SiteStatusChanges ==
    /\ \E s \in Statuses \ {site_status} : site_status' = s
    /\ UNCHANGED <<zone_state, gateway_online, ha_state, last_update, tasks>>

ZoneStateChanges ==
    /\ zone_state' = IF zone_state = STATE_OK THEN "Open" ELSE STATE_OK
    /\ UNCHANGED <<site_status, gateway_online, ha_state, last_update, tasks>>

GatewayChanges ==
    /\ gateway_online' = ~gateway_online
    /\ UNCHANGED <<site_status, zone_state, ha_state, last_update, tasks>>

\* async_alarm_disarm / _arm_home / _arm_away / _arm_custom_bypass up to the
\* await in _perform_alarm_action: the external operation starts
AlarmCommand(cmd) ==
    /\ BagCardinality(tasks) < MaxTasks
    /\ tasks' = tasks (+) SetToBag({[pc |-> "awaiting", cmd |-> cmd,
                                     calls |-> <<ExternalOp(cmd)>>,
                                     done |-> FALSE, ok |-> FALSE, writes |-> 0]})
    /\ UNCHANGED <<site_status, zone_state, gateway_online, ha_state, last_update>>

PerformAlarmAction_always_write(t) ==
    /\ BagIn(t, tasks)
    /\ t.pc = "awaiting"
    /\ \E ok \in BOOLEAN :
        /\ ha_state' = AlarmState(site_status)
        /\ tasks' = (tasks (-) SetToBag({t})) (+)
                    SetToBag({[t EXCEPT !.pc = "returned", !.done = TRUE,
                                        !.ok = ok, !.writes = @ + 1]})
    /\ UNCHANGED <<site_status, zone_state, gateway_online, last_update>>

\* _perform_alarm_action from the completion of the awaited operation to its
\* return: async_write_ha_state() on a true result, a warning otherwise
PerformAlarmAction(t) ==
    /\ BagIn(t, tasks)
    /\ t.pc = "awaiting"
    /\ \E ok \in BOOLEAN :
        IF ok
        THEN /\ ha_state' = AlarmState(site_status)
             /\ tasks' = (tasks (-) SetToBag({t})) (+)
                         SetToBag({[t EXCEPT !.pc = "returned", !.done = TRUE,
                                             !.ok = TRUE, !.writes = @ + 1]})
        ELSE /\ ha_state' = ha_state
             /\ tasks' = (tasks (-) SetToBag({t})) (+)
                         SetToBag({[t EXCEPT !.pc = "returned", !.done = TRUE,
                                             !.ok = FALSE]})
    /\ UNCHANGED <<site_status, zone_state, gateway_online, last_update>>

\* the caller of a command has its result; the invocation is over
CommandReturns(t) ==
    /\ BagIn(t, tasks)
    /\ t.pc = "returned"
    /\ tasks' = tasks (-) SetToBag({t})
    /\ UNCHANGED <<site_status, zone_state, gateway_online, ha_state, last_update>>

\* ADTPulseAlarm._handle_coordinator_update: the debug message indexes
\* ALARM_MAP with the status (KeyError outside the table) before the write
AlarmHandleCoordinatorUpdate ==
    /\ IF site_status \in DOMAIN ALARM_MAP
       THEN /\ ha_state' = AlarmState(site_status)
            /\ last_update' = [entity |-> "alarm", raised |-> FALSE, writes |-> 1,
                             value |-> None]
       ELSE /\ ha_state' = ha_state
            /\ last_update' = [entity |-> "alarm", raised |-> TRUE, writes |-> 0,
                             value |-> None]
    /\ UNCHANGED <<site_status, zone_state, gateway_online, tasks>>

\* ADTPulseZoneSensor._handle_coordinator_update
ZoneHandleCoordinatorUpdate ==
    /\ last_update' = [entity |-> "zone", raised |-> FALSE, writes |-> 1,
                       value |-> ZoneIsOn(zone_state)]
    /\ UNCHANGED <<site_status, zone_state, gateway_online, ha_state, tasks>>

\* ADTPulseGatewaySensor._handle_coordinator_update
GatewayHandleCoordinatorUpdate ==
    /\ last_update' = [entity |-> "gateway", raised |-> FALSE, writes |-> 1,
                       value |-> gateway_online]
    /\ UNCHANGED <<site_status, zone_state, gateway_online, ha_state, tasks>>

----------------------------------------------------------------------------
(* binary_sensor.py: classification of a zone *)

\* ADT_DEVICE_CLASS_TAG_MAP, in the order the dict literal lists its keys
ADT_DEVICE_CLASS_TAG_MAP == <<
    [tag |-> "co", class |-> "carbon_monoxide"],
    [tag |-> "doorWindow", class |-> "door"],
    [tag |-> "flood", class |-> "moisture"],
    [tag |-> "garage", class |-> "garage_door"],
    [tag |-> "fire", class |-> "heat"],
    [tag |-> "motion", class |-> "motion"],
    [tag |-> "smoke", class |-> "smoke"],
    [tag |-> "glass", class |-> "tamper"] >>

TableTags == {ADT_DEVICE_CLASS_TAG_MAP[k].tag : k \in 1..Len(ADT_DEVICE_CLASS_TAG_MAP)}

\* ADT_DEVICE_CLASS_TAG_MAP[tag], for a tag that is a key
TagClass(tag) ==
    ADT_DEVICE_CLASS_TAG_MAP[
        CHOOSE k \in 1..Len(ADT_DEVICE_CLASS_TAG_MAP) :
            ADT_DEVICE_CLASS_TAG_MAP[k].tag = tag].class

Window == <<"W","i","n","d","o","w">>
window == <<"w","i","n","d","o","w">>

RECURSIVE FirstMapped_table_order(_, _)
FirstMapped_table_order(tags, i) ==
    IF i > Len(ADT_DEVICE_CLASS_TAG_MAP) THEN None
    ELSE IF InSeq(ADT_DEVICE_CLASS_TAG_MAP[i].tag, tags)
         THEN ADT_DEVICE_CLASS_TAG_MAP[i].class
         ELSE FirstMapped_table_order(tags, i + 1)

\* `for tag in tags: try: device_class = MAP[tag]; break; except KeyError: continue`
\* from the i-th tag on
RECURSIVE FirstMapped(_, _)
FirstMapped(tags, i) ==
    IF i > Len(tags) THEN None
    ELSE IF tags[i] \in TableTags THEN TagClass(tags[i])
         ELSE FirstMapped(tags, i + 1)

\* the device class before the door/window refinement
BaseClass(zone) ==
    IF InSeq("sensor", zone.tags) THEN FirstMapped(zone.tags, 1) ELSE None

DetermineDeviceClass_silent_default(zone) ==
    IF BaseClass(zone) = "door"
       /\ (Contains(zone.name, Window) \/ Contains(zone.name, window))
    THEN [raised |-> FALSE, device_class |-> "window"]
    ELSE [raised |-> FALSE, device_class |-> BaseClass(zone)]

\* ADTPulseZoneSensor._determine_device_class
DetermineDeviceClass(zone) ==
    IF BaseClass(zone) = None
    THEN [raised |-> TRUE, device_class |-> None]
    ELSE IF BaseClass(zone) = "door"
            /\ (Contains(zone.name, Window) \/ Contains(zone.name, window))
         THEN [raised |-> FALSE, device_class |-> "window"]
         ELSE [raised |-> FALSE, device_class |-> BaseClass(zone)]

\* tags the service may put on a zone: "sensor", the table's tags, and one
\* tag the table does not have
TagAlphabet == {"sensor", "keypad"} \cup TableTags

Names == { <<"D","o","o","r">>,
           <<"B","a","y"," ","W","i","n","d","o","w">>,
           <<"w","i","n","d","o","w","s">>,
           <<"W","I","N","D","O","W">>,
           <<"W","i","n","d"," ","o","w">> }

TagLists == UNION {[1..n -> TagAlphabet] : n \in 0..MaxTags}

ClassifyInit ==
    /\ zone_data \in [tags : TagLists, name : Names]
    /\ ctor_result = [status |-> "none"]

\* ADTPulseZoneSensor.__init__: a ValueError of _determine_device_class leaves
\* no entity
ZoneSensorInit ==
    /\ ctor_result.status = "none"
    /\ ctor_result' =
          IF DetermineDeviceClass(zone_data).raised
          THEN [status |-> "ValueError"]
          ELSE [status |-> "created",
                device_class |-> DetermineDeviceClass(zone_data).device_class,
                name |-> zone_data.name]
    /\ UNCHANGED zone_data

----------------------------------------------------------------------------
(* Platform setup: async_setup_entry of both files *)

DigitChars == <<"0","1","2","3","4","5","6","7","8","9">>

\* str() of a non-negative integer, as the f-strings format a zone id
RECURSIVE Str(_)
Str(n) == IF n < 10 THEN <<DigitChars[n + 1]>>
          ELSE Str(n \div 10) \o <<DigitChars[(n % 10) + 1]>>

\* ADTPulseAlarm.unique_id
AlarmUniqueId(site) == <<"adt_pulse_alarm_">> \o site.id

\* ADTPulseZoneSensor.unique_id
ZoneUniqueId(site, zone_id) ==
    <<"adt_pulse_sensor_">> \o site.id \o <<"_">> \o Str(zone_id)

\* ADTPulseGatewaySensor.unique_id
GatewayUniqueId(sites) == <<"adt_pulse_gateway_">> \o sites[1].id

\* the distinct ids of the sites, by position in PyADTPulse.sites
SiteIds == << <<"7">>, <<"7","1">>, <<"1">>, <<"1","7">> >>

\* the zones a site may have: a motion sensor, a door/window sensor named as
\* a window, and a keypad the classification table does not know
SetupZones == { [tags |-> <<"sensor", "motion">>, name |-> <<"H","a","l","l">>],
                [tags |-> <<"sensor", "doorWindow">>, name |-> <<"W","i","n","d","o","w">>],
                [tags |-> <<"sensor", "keypad">>, name |-> <<"P","a","d">>] }

\* site.zones_as_dict in key order; the zone at position z has zone id z
ZoneLists == UNION {[1..n -> SetupZones] : n \in 0..MaxZones}

\* PyADTPulse.sites built from the zone lists: the site at position i has the
\* i-th site id
ServiceOf(zl) == [i \in 1..Len(zl) |-> [id |-> SiteIds[i], zones |-> zl[i]]]

SetupInit ==
    /\ \E n \in 0..MaxSites : \E zl \in [1..n -> ZoneLists] : service = ServiceOf(zl)
    /\ alarm_pc = "none"
    /\ alarm_added = <<>>
    /\ sensor_pc = "none"
    /\ sensor_idx = 0
    /\ sensor_added = <<>>

\* alarm_control_panel.async_setup_entry: no sites, no entities; else one
\* ADTPulseAlarm per site in one async_add_entities call
AlarmSetupEntry ==
    /\ alarm_pc = "none"
    /\ alarm_pc' = "returned"
    /\ alarm_added' =
          IF service = <<>> THEN <<>>
          ELSE [i \in 1..Len(service) |->
                   [kind |-> "alarm", site |-> i, zone |-> 0,
                    unique_id |-> AlarmUniqueId(service[i])]]
    /\ UNCHANGED <<service, sensor_pc, sensor_idx, sensor_added>>

\* binary_sensor.async_setup_entry up to its loop over the sites
SensorSetupEntry ==
    /\ sensor_pc = "none"
    /\ IF service = <<>>
       THEN sensor_pc' = "returned" /\ sensor_idx' = sensor_idx
       ELSE sensor_pc' = "loop" /\ sensor_idx' = 1
    /\ UNCHANGED <<service, alarm_pc, alarm_added, sensor_added>>

\* the zone sensors the list comprehension builds for a site
ZoneEntities(i) ==
    [z \in 1..Len(service[i].zones) |->
        [kind |-> "zone", site |-> i, zone |-> z,
         unique_id |-> ZoneUniqueId(service[i], z)]]

GatewayEntity ==
    [kind |-> "gateway", site |-> 0, zone |-> 0,
     unique_id |-> GatewayUniqueId(service)]

SensorSetupSite_return_on_empty ==
    /\ sensor_pc = "loop"
    /\ sensor_idx <= Len(service)
    /\ IF service[sensor_idx].zones = <<>>
       THEN /\ sensor_pc' = "returned"
            /\ UNCHANGED <<sensor_idx, sensor_added>>
       ELSE IF \E z \in 1..Len(service[sensor_idx].zones) :
                   DetermineDeviceClass(service[sensor_idx].zones[z]).raised
            THEN /\ sensor_pc' = "ValueError"
                 /\ UNCHANGED <<sensor_idx, sensor_added>>
            ELSE /\ sensor_added' =
                        sensor_added \o ZoneEntities(sensor_idx) \o <<GatewayEntity>>
                 /\ sensor_idx' = sensor_idx + 1
                 /\ sensor_pc' = IF sensor_idx + 1 > Len(service) THEN "returned" ELSE "loop"
    /\ UNCHANGED <<service, alarm_pc, alarm_added>>

\* one iteration of the loop over the sites: a site without zones is skipped;
\* a ValueError of a zone sensor's construction leaves the function; else the
\* site's zone sensors are registered, then a gateway sensor. The function
\* returns after the last site.
SensorSetupSite ==
    /\ sensor_pc = "loop"
    /\ sensor_idx <= Len(service)
    /\ IF service[sensor_idx].zones = <<>>
       THEN /\ sensor_added' = sensor_added
            /\ sensor_idx' = sensor_idx + 1
            /\ sensor_pc' = IF sensor_idx + 1 > Len(service) THEN "returned" ELSE "loop"
       ELSE IF \E z \in 1..Len(service[sensor_idx].zones) :
                   DetermineDeviceClass(service[sensor_idx].zones[z]).raised
            THEN /\ sensor_pc' = "ValueError"
                 /\ UNCHANGED <<sensor_idx, sensor_added>>
            ELSE /\ sensor_added' =
                        sensor_added \o ZoneEntities(sensor_idx) \o <<GatewayEntity>>
                 /\ sensor_idx' = sensor_idx + 1
                 /\ sensor_pc' = IF sensor_idx + 1 > Len(service) THEN "returned" ELSE "loop"
    /\ UNCHANGED <<service, alarm_pc, alarm_added>>

----------------------------------------------------------------------------
(* Values of the variables a specification does not use *)

NoZone == [tags |-> <<>>, name |-> <<>>]
ClassifyIdle == zone_data = NoZone /\ ctor_result = [status |-> "none"]
SetupIdle ==
    /\ service = <<>>
    /\ alarm_pc = "none"
    /\ alarm_added = <<>>
    /\ sensor_pc = "none"
    /\ sensor_idx = 0
    /\ sensor_added = <<>>
PanelIdle ==
    /\ site_status = ADT_ALARM_UNKNOWN
    /\ zone_state = STATE_OK
    /\ gateway_online = TRUE
    /\ ha_state = "unwritten"
    /\ last_update = NoUpdate
    /\ tasks = EmptyBag

----------------------------------------------------------------------------
(* Spec: the entities at run time *)

Init == PanelInit /\ ClassifyIdle /\ SetupIdle

Next ==
    \/ SiteStatusChanges /\ UNCHANGED <<classify_vars, setup_vars>>
    \/ ZoneStateChanges /\ UNCHANGED <<classify_vars, setup_vars>>
    \/ GatewayChanges /\ UNCHANGED <<classify_vars, setup_vars>>
    \/ \E cmd \in Commands :
          AlarmCommand(cmd) /\ UNCHANGED <<classify_vars, setup_vars>>
    \/ \E t \in BagToSet(tasks) :
          PerformAlarmAction(t) /\ UNCHANGED <<classify_vars, setup_vars>>
    \/ \E t \in BagToSet(tasks) :
          CommandReturns(t) /\ UNCHANGED <<classify_vars, setup_vars>>
    \/ AlarmHandleCoordinatorUpdate /\ UNCHANGED <<classify_vars, setup_vars>>
    \/ ZoneHandleCoordinatorUpdate /\ UNCHANGED <<classify_vars, setup_vars>>
    \/ GatewayHandleCoordinatorUpdate /\ UNCHANGED <<classify_vars, setup_vars>>

Spec == Init /\ [][Next]_vars

----------------------------------------------------------------------------
(* SpecClassify: one zone sensor is constructed from a zone's data *)

InitClassify == ClassifyInit /\ PanelIdle /\ SetupIdle

NextClassify == ZoneSensorInit /\ UNCHANGED <<panel_vars, setup_vars>>

SpecClassify == InitClassify /\ [][NextClassify]_vars

----------------------------------------------------------------------------
(* SpecSetup: both platforms are set up for a service *)

InitSetup == SetupInit /\ PanelIdle /\ ClassifyIdle

NextSetup ==
    \/ AlarmSetupEntry /\ UNCHANGED <<panel_vars, classify_vars>>
    \/ SensorSetupEntry /\ UNCHANGED <<panel_vars, classify_vars>>
    \/ SensorSetupSite /\ UNCHANGED <<panel_vars, classify_vars>>

SpecSetup == InitSetup /\ [][NextSetup]_vars

----------------------------------------------------------------------------
(* Properties of the entities at run time *)

\* C1: for every site status the alarm entity's state is the table entry for
\* the site's current status (arming -> arming, away -> armed_away,
\* disarming -> disarming, home -> armed_home, off -> disarmed, unknown ->
\* null), and null for a status outside the vendor vocabulary, whatever
\* changes of status came before.
C1_StateIsTableEntry ==
    /\ site_status = "arming" => AlarmState(site_status) = "arming"
    /\ site_status = "away" => AlarmState(site_status) = "armed_away"
    /\ site_status = "disarming" => AlarmState(site_status) = "disarming"
    /\ site_status = "home" => AlarmState(site_status) = "armed_home"
    /\ site_status = "off" => AlarmState(site_status) = "disarmed"
    /\ site_status = "unknown" => AlarmState(site_status) = None
    /\ site_status \notin {"arming", "away", "disarming", "home", "off", "unknown"}
          => AlarmState(site_status) = None

\* a state was published as armed_home and the status has since left the vocabulary
C1_Witness ==
    /\ ha_state = "armed_home"
    /\ site_status = ForeignStatus
    /\ AlarmState(site_status) = None

\* C2: an invocation of any of the four commands has made exactly one
\* state-refresh notification when it returns after a successful external
\* operation, none when it returns after a failed one, and none before the
\* operation completes.
C2_OneRefreshOnSuccess ==
    \A t \in BagToSet(tasks) :
        /\ t.cmd \in Commands
        /\ t.pc = "awaiting" => t.writes = 0
        /\ (t.pc = "returned" /\ t.ok) => t.writes = 1
        /\ (t.pc = "returned" /\ ~t.ok) => t.writes = 0

\* one invocation returned after success and another after failure
C2_Witness ==
    \E t1, t2 \in BagToSet(tasks) :
        /\ t1.pc = "returned" /\ t1.ok /\ t1.writes = 1
        /\ t2.pc = "returned" /\ ~t2.ok /\ t2.writes = 0

\* C8: each command starts its own external operation exactly once (disarm ->
\* disarm, arm-home -> arm-home, arm-away -> arm-away without force,
\* force-arm -> arm-away with force), returns only after that operation has
\* completed, and returns normally also when the operation failed.
C8_ForwardedOnceAndAwaited ==
    \A t \in BagToSet(tasks) :
        /\ Len(t.calls) = 1
        /\ t.cmd = "disarm" =>
              t.calls[1] = [op |-> "async_disarm", force_arm |-> FALSE]
        /\ t.cmd = "arm_home" =>
              t.calls[1] = [op |-> "async_arm_home", force_arm |-> FALSE]
        /\ t.cmd = "arm_away" =>
              t.calls[1] = [op |-> "async_arm_away", force_arm |-> FALSE]
        /\ t.cmd = "arm_custom_bypass" =>
              t.calls[1] = [op |-> "async_arm_away", force_arm |-> TRUE]
        /\ t.pc \in {"awaiting", "returned"}
        /\ t.pc = "returned" <=> t.done

\* a force-arm whose operation failed has returned, a disarm is still awaited
C8_Witness ==
    \E t1, t2 \in BagToSet(tasks) :
        /\ t1.cmd = "arm_custom_bypass" /\ t1.pc = "returned" /\ t1.done /\ ~t1.ok
        /\ t2.cmd = "disarm" /\ t2.pc = "awaiting" /\ ~t2.done

\* C9 (as claimed): every coordinator update delivered to an entity results in
\* exactly one state refresh of that entity and never raises.
C9_UpdateRefreshesOnce ==
    last_update.entity \in Entities =>
        (~last_update.raised /\ last_update.writes = 1)

----------------------------------------------------------------------------
(* Properties of the classification *)

\* C3 (as claimed): a zone that classifies as door is refined to window if and
\* only if its name contains "window" compared case-insensitively; otherwise
\* it stays door.
C3_WindowCaseInsensitive ==
    (ctor_result.status = "created" /\ BaseClass(zone_data) = "door") =>
        /\ Contains(Lower(zone_data.name), <<"w","i","n","d","o","w">>)
              <=> ctor_result.device_class = "window"
        /\ ~Contains(Lower(zone_data.name), <<"w","i","n","d","o","w">>)
              <=> ctor_result.device_class = "door"

\* C4 (as claimed): with more than one table tag on the zone, the class is
\* that of the tag that comes first in the table's order.
C4_TableOrderWins ==
    (/\ ctor_result.status = "created"
     /\ Cardinality({i \in 1..Len(zone_data.tags) : zone_data.tags[i] \in TableTags}) > 1)
    => \E k \in 1..Len(ADT_DEVICE_CLASS_TAG_MAP) :
          /\ InSeq(ADT_DEVICE_CLASS_TAG_MAP[k].tag, zone_data.tags)
          /\ \A m \in 1..(k - 1) : ~InSeq(ADT_DEVICE_CLASS_TAG_MAP[m].tag, zone_data.tags)
          /\ \/ ctor_result.device_class = ADT_DEVICE_CLASS_TAG_MAP[k].class
             \/ /\ ADT_DEVICE_CLASS_TAG_MAP[k].class = "door"
                /\ ctor_result.device_class = "window"

\* C4 (amended): the tags are scanned in the order they appear on the zone,
\* provided "sensor" is among them, and the first tag that the table has
\* decides: the class is that tag's table entry (door possibly refined to
\* window), whatever the table's order.
C4_ZoneOrderWins ==
    ctor_result.status = "created" =>
        /\ InSeq("sensor", zone_data.tags)
        /\ \E i \in 1..Len(zone_data.tags) :
              /\ zone_data.tags[i] \in TableTags
              /\ \A j \in 1..(i - 1) : zone_data.tags[j] \notin TableTags
              /\ \E k \in 1..Len(ADT_DEVICE_CLASS_TAG_MAP) :
                    /\ ADT_DEVICE_CLASS_TAG_MAP[k].tag = zone_data.tags[i]
                    /\ \/ ctor_result.device_class = ADT_DEVICE_CLASS_TAG_MAP[k].class
                       \/ /\ ADT_DEVICE_CLASS_TAG_MAP[k].class = "door"
                          /\ ctor_result.device_class = "window"

\* motion precedes doorWindow on the zone, doorWindow precedes motion in the table
C4_Witness ==
    /\ zone_data.tags = <<"sensor", "motion", "doorWindow">>
    /\ ctor_result.status = "created"
    /\ ctor_result.device_class = "motion"

\* C5: a zone none of whose tags is in the classification table gets no entity:
\* construction fails with the ValueError; and an entity that is created never
\* has a class other than the table's classes and window.
C5_UnsupportedRaises ==
    ctor_result.status # "none" =>
        /\ (\A i \in 1..Len(zone_data.tags) : zone_data.tags[i] \notin TableTags)
              => ctor_result.status = "ValueError"
        /\ ctor_result.status = "created" =>
              ctor_result.device_class \in
                  {"carbon_monoxide", "door", "moisture", "garage_door", "heat",
                   "motion", "smoke", "tamper", "window"}

\* a sensor zone with a tag the table does not have was refused
C5_Witness ==
    /\ zone_data.tags = <<"sensor", "keypad">>
    /\ ctor_result.status = "ValueError"

----------------------------------------------------------------------------
(* Properties of the setup *)

\* C6 (as claimed): when sensor setup has ended, by return or by error, every
\* zone with a recognized tag set, in every site, has its entity registered,
\* and so has the gateway sensor, although some zone has an unrecognized tag set.
C6_OnlyTheBadZoneIsDropped ==
    (/\ sensor_pc \in {"returned", "ValueError"}
     /\ \E i \in 1..Len(service) : \E z \in 1..Len(service[i].zones) :
           service[i].zones[z].tags = <<"sensor", "keypad">>)
    => /\ \A i \in 1..Len(service) : \A z \in 1..Len(service[i].zones) :
             service[i].zones[z].tags # <<"sensor", "keypad">> =>
                 \E e \in 1..Len(sensor_added) :
                     /\ sensor_added[e].kind = "zone"
                     /\ sensor_added[e].site = i
                     /\ sensor_added[e].zone = z
       /\ \E e \in 1..Len(sensor_added) : sensor_added[e].kind = "gateway"

\* C7: with no sites neither platform registers an entity and both setups
\* return; a site without zones gets no zone entity and never ends the sensor
\* setup: the setup raises only at a site that has a zone with an unsupported
\* tag set, and when it returns every zone of every site that has zones is
\* registered.
C7_AbsentDataSkipsOnlyItsScope ==
    /\ (service = <<>> /\ alarm_pc # "none") =>
          (alarm_pc = "returned" /\ alarm_added = <<>>)
    /\ (service = <<>> /\ sensor_pc # "none") =>
          (sensor_pc = "returned" /\ sensor_added = <<>>)
    /\ \A i \in 1..Len(service) :
          service[i].zones = <<>> =>
              \A e \in 1..Len(sensor_added) : sensor_added[e].site # i
    /\ sensor_pc = "ValueError" =>
          \E z \in 1..Len(service[sensor_idx].zones) :
              service[sensor_idx].zones[z].tags = <<"sensor", "keypad">>
    /\ \A i \in 1..Len(service) :
          (/\ service[i].zones # <<>>
           /\ sensor_pc = "returned" \/ (sensor_pc = "loop" /\ i < sensor_idx))
          => \A z \in 1..Len(service[i].zones) :
                 \E e \in 1..Len(sensor_added) :
                     /\ sensor_added[e].kind = "zone"
                     /\ sensor_added[e].site = i
                     /\ sensor_added[e].zone = z

\* the first site has no zones, the second one's zones were registered
C7_Witness ==
    /\ Len(service) = 2
    /\ service[1].zones = <<>>
    /\ service[2].zones # <<>>
    /\ sensor_pc = "returned"
    /\ \E e \in 1..Len(sensor_added) :
          sensor_added[e].kind = "zone" /\ sensor_added[e].site = 2

\* C10 (as claimed): after sensor setup has returned, the unique ids of the
\* registered entities are pairwise distinct.
C10_UniqueIdsDistinct ==
    sensor_pc = "returned" =>
        \A e1, e2 \in 1..Len(sensor_added) :
            e1 # e2 => sensor_added[e1].unique_id # sensor_added[e2].unique_id

====
